---- MODULE Spec2Model ----
(***************************************************************************)
(* Model of src/main.py: the candidate pipeline of main() from the         *)
(* deduplication of raw_entries (line 494) to limited_entries (line 556),  *)
(* and of the probe coroutine test_speed (lines 244-310).                  *)
(*                                                                         *)
(* asyncio runs coroutines cooperatively: a coroutine is interrupted only  *)
(* at an await.  Each action below is the code between two awaits.         *)
(***************************************************************************)
EXTENDS Integers, Sequences, FiniteSets, TLC

\* ------------------------------------------------------------- bounds
MaxEntries == 2           \* length of raw_entries
MaxSpeed == 1             \* parsed ffmpeg speed factors are 0..MaxSpeed
MaxLinks == 1             \* MAX_LINKS_PER_CHANNEL ranges over 0..MaxLinks
MaxConcurrency == 2       \* SPEED_TEST_CONCURRENCY ranges over 1..MaxConcurrency
MaxProbes == 1            \* candidates of a run that follows single probes

\* ------------------------------------------------------------- program constants
ENABLE_DEDUPLICATION == TRUE
ENABLE_RESOLUTION_FILTER == TRUE
MIN_RESOLUTION_WIDTH == 1920
MIN_RESOLUTION_HEIGHT == 1080

\* ------------------------------------------------------------- input domains
\* the URLs, listed in lexical (string) order
UrlList == <<"http://a/x", "http://b/y">>
\* what the page can yield: two URLs of one channel, and one of them again
\* under another channel
Triples == {<<"cctv", "CCTV-1", UrlList[1]>>, <<"cctv", "CCTV-1", UrlList[2]>>,
            <<"satellite", "BTV", UrlList[1]>>}

\* Python's None; a probe result is None or the tuple (url, group, name, speed)
None == <<>>
\* "no match" of a regular expression search
NoMatch == -1
Resolutions == {<<1280, 1080>>, <<1920, 720>>, <<1920, 1080>>}
\* what process.communicate() hands back: the return code, the speed of the
\* last "speed=...x" line of stderr (NoMatch when no line has one), and the
\* resolution of the first "Video:" line that carries one (None when none does)
Outputs == [rc : {1}, speed : {NoMatch}, res : {None}]
           \cup [rc : {0}, speed : {NoMatch} \cup (0..MaxSpeed), res : {None} \cup Resolutions]
NoOutput == [rc |-> 0 - 1, speed |-> NoMatch, res |-> None]
\* process.returncode: None until the subprocess has exited and been reaped,
\* the negated signal number after process.kill()
NotExited == 0 - 1
Killed == 0 - 9

VARIABLES
    MAX_LINKS_PER_CHANNEL,     \* line 62
    ENABLE_SPEED_TEST,         \* line 95, cleared at line 320 when ffmpeg is missing
    SPEED_TEST_CONCURRENCY,    \* line 96
    raw_entries,               \* line 387: list of (group, name, url)
    phase,                     \* where main() is
    channel_urls,              \* line 494, reassigned at 544 / 551
    semaphore,                 \* line 512: the value of the asyncio.Semaphore
    tasks,                     \* line 513: one (url, group, name) per test_speed coroutine
    pc,                        \* where each test_speed coroutine is
    returncode,                \* process.returncode of each coroutine's subprocess
    out,                       \* stdout and stderr that communicate() returned to each coroutine
    ret,                       \* the value each finished coroutine returned
    done_queue,                \* as_completed: finished coroutines not yet awaited by main
    results,                   \* line 521
    speed_map,                 \* line 531
    limited_entries,           \* line 553
    wall_clock                 \* whether the run has lasted longer than any overall limit

vars == <<MAX_LINKS_PER_CHANNEL, ENABLE_SPEED_TEST, SPEED_TEST_CONCURRENCY,
          raw_entries, phase, channel_urls, semaphore,
          tasks, pc, returncode, out, ret, done_queue, results, speed_map,
          limited_entries, wall_clock>>

config == <<MAX_LINKS_PER_CHANNEL, ENABLE_SPEED_TEST, SPEED_TEST_CONCURRENCY, raw_entries>>

\* ------------------------------------------------------------- dict helpers
\* An insertion-ordered dict of lists (defaultdict(list)) is a sequence of
\* <<key, list>> pairs with distinct keys.
DictKeys(d) == {d[i][1] : i \in 1..Len(d)}

DictGet(d, k) ==
    IF k \in DictKeys(d)
    THEN d[CHOOSE i \in 1..Len(d) : d[i][1] = k][2]
    ELSE <<>>

\* d[k].append(x)
DictAppend(d, k, x) ==
    IF k \in DictKeys(d)
    THEN [i \in 1..Len(d) |-> IF d[i][1] = k THEN <<k, Append(d[i][2], x)>> ELSE d[i]]
    ELSE Append(d, <<k, <<x>>>>)

Min(a, b) == IF a < b THEN a ELSE b

\* ------------------------------------------------------------- deduplication
\* DedupLoop without the seen_set test of line 500
RECURSIVE DedupLoopNoSeen(_, _, _, _)
DedupLoopNoSeen(entries, i, seen_set, d) ==
    IF i > Len(entries) THEN d
    ELSE DedupLoopNoSeen(entries, i + 1, seen_set,
                         DictAppend(d, <<entries[i][1], entries[i][2]>>, entries[i][3]))

RECURSIVE DedupLoop(_, _, _, _)
DedupLoop(entries, i, seen_set, d) ==
    IF i > Len(entries) THEN d
    ELSE LET group == entries[i][1]
             name == entries[i][2]
             url == entries[i][3]
             key == <<group, name, url>>
         IN  IF ENABLE_DEDUPLICATION /\ key \in seen_set
             THEN DedupLoop(entries, i + 1, seen_set, d)
             ELSE DedupLoop(entries, i + 1,
                            IF ENABLE_DEDUPLICATION THEN seen_set \cup {key} ELSE seen_set,
                            DictAppend(d, <<group, name>>, url))

Dedup ==
    /\ phase = "dedup"
    /\ channel_urls' = DedupLoop(raw_entries, 1, {}, <<>>)
    /\ phase' = IF ENABLE_SPEED_TEST THEN "speedtest" ELSE "truncate"
    /\ UNCHANGED <<config, semaphore, tasks, pc, returncode, out, ret, done_queue,
                   results, speed_map, limited_entries, wall_clock>>

\* ------------------------------------------------------------- main: task creation
\* lines 514-516: one coroutine per url of every channel, in dict order
RECURSIVE TasksOf(_, _)
TasksOf(d, j) ==
    IF j > Len(d) THEN <<>>
    ELSE LET group == d[j][1][1]
             name == d[j][1][2]
             urls == d[j][2]
         IN  [k \in 1..Len(urls) |-> <<urls[k], group, name>>] \o TasksOf(d, j + 1)

CreateTasks ==
    /\ phase = "speedtest"
    /\ semaphore' = SPEED_TEST_CONCURRENCY
    /\ tasks' = TasksOf(channel_urls, 1)
    /\ pc' = [i \in 1..Len(tasks') |-> "start"]
    /\ returncode' = [i \in 1..Len(tasks') |-> NotExited]
    /\ out' = [i \in 1..Len(tasks') |-> NoOutput]
    /\ ret' = [i \in 1..Len(tasks') |-> None]
    /\ done_queue' = <<>>
    /\ results' = <<>>
    /\ phase' = "collect"
    /\ UNCHANGED <<config, channel_urls, speed_map, limited_entries, wall_clock>>

\* ------------------------------------------------------------- test_speed
\* a semaphore that admits whatever its value
SemaphoreAlwaysFree(value) == TRUE

\* asyncio.Semaphore: acquire() returns at once while the value is positive
\* and otherwise waits for a release()
SemaphoreFree(value) == value > 0

\* lines 245-261: enter the semaphore and start the ffmpeg subprocess
Admit(i) ==
    /\ phase = "collect"
    /\ pc[i] = "start"
    /\ SemaphoreFree(semaphore)
    /\ semaphore' = semaphore - 1
    /\ pc' = [pc EXCEPT ![i] = "communicate"]
    /\ UNCHANGED <<config, phase, channel_urls, tasks, returncode, out, ret, done_queue,
                   results, speed_map, limited_entries, wall_clock>>

\* Timeout without the "except asyncio.TimeoutError" of line 264: the
\* exception leaves the coroutine, which returns nothing
TimeoutUncaught(i) ==
    /\ pc[i] = "communicate"
    /\ pc' = [pc EXCEPT ![i] = "raised"]
    /\ UNCHANGED <<config, phase, channel_urls, semaphore, tasks, returncode, out, ret,
                   done_queue, results, speed_map, limited_entries, wall_clock>>

\* Timeout without the "await process.wait()" of line 266: the coroutine
\* returns None and leaves the semaphore while the killed subprocess is not
\* yet reaped
TimeoutNoWait(i) ==
    /\ pc[i] = "communicate"
    /\ ret' = [ret EXCEPT ![i] = None]
    /\ pc' = [pc EXCEPT ![i] = "done"]
    /\ semaphore' = semaphore + 1
    /\ done_queue' = Append(done_queue, i)
    /\ UNCHANGED <<config, phase, channel_urls, tasks, returncode, out, results,
                   speed_map, limited_entries, wall_clock>>

\* lines 264-266: wait_for raises TimeoutError; the subprocess is killed and
\* the coroutine awaits process.wait()
Timeout(i) ==
    /\ pc[i] = "communicate"
    /\ pc' = [pc EXCEPT ![i] = "wait"]
    /\ UNCHANGED <<config, phase, channel_urls, semaphore, tasks, returncode, out, ret,
                   done_queue, results, speed_map, limited_entries, wall_clock>>

\* a timeout that returns a measurement of speed 0 instead of None
TimeoutResultCredited(url, group, name) == <<url, group, name, 0>>

\* line 269: what test_speed returns after a timeout
TimeoutResult(url, group, name) == None

\* TestSpeedResult with the height test of line 302 left out
TestSpeedResultWidthOnly(url, group, name, o) ==
    IF o.rc # 0 THEN None
    ELSE IF o.speed = NoMatch THEN None
    ELSE IF ENABLE_RESOLUTION_FILTER /\ o.res = None THEN None
    ELSE IF ENABLE_RESOLUTION_FILTER /\ o.res[1] < MIN_RESOLUTION_WIDTH THEN None
    ELSE <<url, group, name, o.speed>>

\* lines 270-310: what test_speed returns for the output o of its subprocess
TestSpeedResult(url, group, name, o) ==
    IF o.rc # 0 THEN None
    ELSE IF o.speed = NoMatch THEN None
    ELSE IF ENABLE_RESOLUTION_FILTER /\ o.res = None THEN None
    ELSE IF ENABLE_RESOLUTION_FILTER
            /\ (o.res[1] < MIN_RESOLUTION_WIDTH \/ o.res[2] < MIN_RESOLUTION_HEIGHT)
         THEN None
    ELSE <<url, group, name, o.speed>>

\* the coroutine returns r: the semaphore is released (end of "async with")
\* and as_completed puts the finished coroutine in its queue
Finish(i, rc, r) ==
    /\ returncode' = [returncode EXCEPT ![i] = rc]
    /\ ret' = [ret EXCEPT ![i] = r]
    /\ out' = [out EXCEPT ![i] = NoOutput]
    /\ pc' = [pc EXCEPT ![i] = "done"]
    /\ semaphore' = semaphore + 1
    /\ done_queue' = Append(done_queue, i)

\* lines 266-269: process.wait() returns, the coroutine returns None
Reap(i) ==
    /\ pc[i] = "wait"
    /\ Finish(i, Killed, TimeoutResult(tasks[i][1], tasks[i][2], tasks[i][3]))
    /\ UNCHANGED <<config, phase, channel_urls, tasks, results, speed_map,
                   limited_entries, wall_clock>>

\* lines 263 and 270-310: communicate() returns the output o of the subprocess
\* before the timeout; nothing is awaited between there and the return
Communicate(i, o) ==
    /\ pc[i] = "communicate"
    /\ Finish(i, o.rc, TestSpeedResult(tasks[i][1], tasks[i][2], tasks[i][3], o))
    /\ UNCHANGED <<config, phase, channel_urls, tasks, results, speed_map,
                   limited_entries, wall_clock>>

\* The same lines in two steps, for the specification that follows single
\* probes: line 263, the subprocess exits with output o and communicate()
\* has it as stdout, stderr and process.returncode ...
ProcessExits(i, o) ==
    /\ pc[i] = "communicate"
    /\ out' = [out EXCEPT ![i] = o]
    /\ pc' = [pc EXCEPT ![i] = "parse"]
    /\ UNCHANGED <<config, phase, channel_urls, semaphore, tasks, returncode, ret,
                   done_queue, results, speed_map, limited_entries, wall_clock>>

\* ... and lines 270-310, the coroutine resumes, parses them and returns
Return(i) ==
    /\ pc[i] = "parse"
    /\ Finish(i, out[i].rc, TestSpeedResult(tasks[i][1], tasks[i][2], tasks[i][3], out[i]))
    /\ UNCHANGED <<config, phase, channel_urls, tasks, results, speed_map,
                   limited_entries, wall_clock>>

\* ------------------------------------------------------------- main: collection
\* lines 522-524: the next finished coroutine is awaited and its result appended
Collect ==
    /\ phase = "collect"
    /\ done_queue # <<>>
    /\ results' = Append(results, ret[Head(done_queue)])
    /\ done_queue' = Tail(done_queue)
    /\ UNCHANGED <<config, phase, channel_urls, semaphore, tasks, pc, returncode, out,
                   ret, speed_map, limited_entries, wall_clock>>

\* as_completed(tasks) is called without a timeout and main() sets no deadline:
\* the time the run has taken is read nowhere
OverallTimeElapses ==
    /\ phase = "collect"
    /\ wall_clock = "within"
    /\ wall_clock' = "exceeded"
    /\ UNCHANGED <<config, phase, channel_urls, semaphore, tasks, pc, returncode, out,
                   ret, done_queue, results, speed_map, limited_entries>>

\* ------------------------------------------------------------- main: selection
\* SpeedMapLoop that files every result under the key the loop of line 514
\* left in group and name, the last key of channel_urls
RECURSIVE SpeedMapLoopStaleKey(_, _, _)
SpeedMapLoopStaleKey(res_list, j, sm) ==
    IF j > Len(res_list) THEN sm
    ELSE LET res == res_list[j]
         IN  IF res = None
             THEN SpeedMapLoopStaleKey(res_list, j + 1, sm)
             ELSE SpeedMapLoopStaleKey(res_list, j + 1,
                                       DictAppend(sm, channel_urls[Len(channel_urls)][1],
                                                  <<res[1], res[4]>>))

\* lines 531-536
RECURSIVE SpeedMapLoop(_, _, _)
SpeedMapLoop(res_list, j, sm) ==
    IF j > Len(res_list) THEN sm
    ELSE LET res == res_list[j]
         IN  IF res = None
             THEN SpeedMapLoop(res_list, j + 1, sm)
             ELSE SpeedMapLoop(res_list, j + 1,
                               DictAppend(sm, <<res[2], res[3]>>, <<res[1], res[4]>>))

\* InsertBySpeed for a sort without reverse=True
RECURSIVE InsertBySpeedAscending(_, _)
InsertBySpeedAscending(sorted, x) ==
    IF sorted = <<>> THEN <<x>>
    ELSE IF Head(sorted)[2] <= x[2]
         THEN <<Head(sorted)>> \o InsertBySpeedAscending(Tail(sorted), x)
         ELSE <<x>> \o sorted

\* InsertBySpeed for a sort that is not stable: x goes before its equals
RECURSIVE InsertBySpeedUnstable(_, _)
InsertBySpeedUnstable(sorted, x) ==
    IF sorted = <<>> THEN <<x>>
    ELSE IF Head(sorted)[2] > x[2]
         THEN <<Head(sorted)>> \o InsertBySpeedUnstable(Tail(sorted), x)
         ELSE <<x>> \o sorted

\* list.sort(key=lambda x: x[1], reverse=True) is stable: x is placed behind
\* every item whose speed is greater than or equal to its own
RECURSIVE InsertBySpeed(_, _)
InsertBySpeed(sorted, x) ==
    IF sorted = <<>> THEN <<x>>
    ELSE IF Head(sorted)[2] >= x[2]
         THEN <<Head(sorted)>> \o InsertBySpeed(Tail(sorted), x)
         ELSE <<x>> \o sorted

RECURSIVE SortBySpeed(_)
SortBySpeed(items) ==
    IF items = <<>> THEN <<>>
    ELSE InsertBySpeed(SortBySpeed(SubSeq(items, 1, Len(items) - 1)), items[Len(items)])

\* Kept with a slice that is one too long
KeptOneMore(items, max_links) ==
    IF max_links > 0 THEN SubSeq(items, 1, Min(max_links + 1, Len(items))) ELSE items

\* lines 541 and 549: items[:MAX_LINKS_PER_CHANNEL] if MAX_LINKS_PER_CHANNEL > 0 else items
Kept(items, max_links) ==
    IF max_links > 0 THEN SubSeq(items, 1, Min(max_links, Len(items))) ELSE items

RECURSIVE AppendUrls(_, _, _, _)
AppendUrls(d, key, kept, k) ==
    IF k > Len(kept) THEN d
    ELSE AppendUrls(DictAppend(d, key, kept[k][1]), key, kept, k + 1)

\* lines 538-543
RECURSIVE RankedLoop(_, _, _)
RankedLoop(sm, j, d) ==
    IF j > Len(sm) THEN d
    ELSE LET key == sm[j][1]
             items == SortBySpeed(sm[j][2])
             kept == Kept(items, MAX_LINKS_PER_CHANNEL)
         IN  RankedLoop(sm, j + 1, AppendUrls(d, key, kept, 1))

\* NewChannelUrls that keeps the untested list of a channel without a passed
\* result
RECURSIVE KeepFailedLoop(_, _, _, _)
KeepFailedLoop(sm, old, j, d) ==
    IF j > Len(old) THEN d
    ELSE IF old[j][1] \in DictKeys(sm)
         THEN KeepFailedLoop(sm, old, j + 1, d)
         ELSE KeepFailedLoop(sm, old, j + 1, Append(d, old[j]))

NewChannelUrlsKeepFailed(sm, old) == KeepFailedLoop(sm, old, 1, RankedLoop(sm, 1, <<>>))

\* lines 538-544: the dict that replaces channel_urls after the speed test
NewChannelUrls(sm, old) == RankedLoop(sm, 1, <<>>)

\* lines 547-551: the dict that replaces channel_urls without speed test
RECURSIVE TruncatedLoop(_, _, _)
TruncatedLoop(old, j, d) ==
    IF j > Len(old) THEN d
    ELSE LET key == old[j][1]
             urls == Kept(old[j][2], MAX_LINKS_PER_CHANNEL)
             pairs == [k \in 1..Len(urls) |-> <<urls[k], 0>>]
         IN  TruncatedLoop(old, j + 1, AppendUrls(d, key, pairs, 1))

\* lines 553-556
RECURSIVE LimitedEntries(_, _)
LimitedEntries(d, j) ==
    IF j > Len(d) THEN <<>>
    ELSE LET group == d[j][1][1]
             name == d[j][1][2]
             urls == d[j][2]
         IN  [k \in 1..Len(urls) |-> <<group, name, urls[k]>>] \o LimitedEntries(d, j + 1)

\* a collection loop that also ends once the run is overdue
LoopExhaustedOrOverdue == Len(results) = Len(tasks) \/ wall_clock = "exceeded"

\* a collection loop that also ends at the first passed result
LoopExhaustedOrFirstPass ==
    Len(results) = Len(tasks) \/ \E k \in 1..Len(results) : results[k] # None

\* line 522: the "for coro in as_completed(tasks)" loop ends when every
\* coroutine has been awaited
LoopExhausted == Len(results) = Len(tasks)

\* lines 531-556, after the collection loop
Select ==
    /\ phase = "collect"
    /\ LoopExhausted
    /\ speed_map' = SpeedMapLoop(results, 1, <<>>)
    /\ channel_urls' = NewChannelUrls(speed_map', channel_urls)
    /\ limited_entries' = LimitedEntries(channel_urls', 1)
    /\ phase' = "done"
    /\ UNCHANGED <<config, semaphore, tasks, pc, returncode, out, ret, done_queue,
                   results, wall_clock>>

\* lines 547-556, speed test disabled
Truncate ==
    /\ phase = "truncate"
    /\ channel_urls' = TruncatedLoop(channel_urls, 1, <<>>)
    /\ limited_entries' = LimitedEntries(channel_urls', 1)
    /\ phase' = "done"
    /\ UNCHANGED <<config, semaphore, tasks, pc, returncode, out, ret, done_queue,
                   results, speed_map, wall_clock>>

\* ------------------------------------------------------------- Init
Init ==
    /\ MAX_LINKS_PER_CHANNEL \in 0..MaxLinks
    /\ ENABLE_SPEED_TEST \in BOOLEAN
    /\ SPEED_TEST_CONCURRENCY \in 1..MaxConcurrency
    /\ raw_entries \in UNION {[1..n -> Triples] : n \in 0..MaxEntries}
    /\ phase = "dedup"
    /\ channel_urls = <<>>
    /\ semaphore = 0
    /\ tasks = <<>>
    /\ pc = <<>>
    /\ returncode = <<>>
    /\ out = <<>>
    /\ ret = <<>>
    /\ done_queue = <<>>
    /\ results = <<>>
    /\ speed_map = <<>>
    /\ limited_entries = <<>>
    /\ wall_clock = "within"

Next ==
    \/ Dedup
    \/ CreateTasks
    \/ \E i \in 1..Len(tasks) : Admit(i)
    \/ \E i \in 1..Len(tasks) : \E o \in Outputs : Communicate(i, o)
    \/ \E i \in 1..Len(tasks) : Timeout(i)
    \/ \E i \in 1..Len(tasks) : Reap(i)
    \/ Collect
    \/ Select
    \/ Truncate

Spec == Init /\ [][Next]_vars

\* asyncio's event loop runs every coroutine that is ready, a subprocess either
\* exits or wait_for's timer fires, and a killed subprocess is reaped
FairSpec == Spec /\ WF_vars(Next)

\* Runs of at most MaxProbes candidates, with the exit of a probe's subprocess
\* and the return of its coroutine as separate steps, and with the time at
\* which the run has lasted longer than an overall limit
ProbeInit == Init /\ Len(raw_entries) <= MaxProbes

ProbeNext ==
    \/ Dedup
    \/ CreateTasks
    \/ \E i \in 1..Len(tasks) : Admit(i)
    \/ \E i \in 1..Len(tasks) : \E o \in Outputs : ProcessExits(i, o)
    \/ \E i \in 1..Len(tasks) : Return(i)
    \/ \E i \in 1..Len(tasks) : Timeout(i)
    \/ \E i \in 1..Len(tasks) : Reap(i)
    \/ Collect
    \/ OverallTimeElapses
    \/ Select
    \/ Truncate

ProbeSpec == ProbeInit /\ [][ProbeNext]_vars

\* ------------------------------------------------------------- vocabulary of the properties
EntrySet == {raw_entries[i] : i \in 1..Len(raw_entries)}
TaskIds == 1..Len(tasks)
TaskTriple(i) == <<tasks[i][2], tasks[i][3], tasks[i][1]>>
TaskKey(i) == <<tasks[i][2], tasks[i][3]>>
\* the tasks have been created
Dispatched == ENABLE_SPEED_TEST /\ phase \in {"collect", "done"}
Finished == ENABLE_SPEED_TEST /\ phase = "done"
Occurrences(seq, v) == Cardinality({k \in 1..Len(seq) : seq[k] = v})
\* the probes that are inside "async with semaphore"
InFlight == {i \in TaskIds : pc[i] \in {"communicate", "parse", "wait"}}
\* the probes of channel key that returned a result other than None
PassedOf(key) == {i \in TaskIds : pc[i] = "done" /\ ret[i] # None /\ TaskKey(i) = key}

\* ------------------------------------------------------------- C1
\* C1: the dispatch loop creates exactly one probe per distinct (group, name,
\* url) triple of raw_entries, and when the run has finished results holds
\* exactly the values the probes returned, one per distinct triple, None of a
\* killed probe included.
C1_OneProbeAndOneResultPerTriple ==
    Dispatched =>
        /\ \A i, j \in TaskIds : i # j => tasks[i] # tasks[j]
        /\ {TaskTriple(i) : i \in TaskIds} = EntrySet
        /\ Len(results) + Len(done_queue) = Cardinality({i \in TaskIds : pc[i] = "done"})
        /\ Finished =>
              /\ Len(results) = Cardinality(EntrySet)
              /\ \A i \in TaskIds :
                    Occurrences(results, ret[i])
                        = Cardinality({j \in TaskIds : ret[j] = ret[i]})

\* a finished run whose input held a triple twice and one of whose probes was
\* killed on timeout
C1_Witness ==
    /\ Finished
    /\ Len(raw_entries) > Cardinality(EntrySet)
    /\ \E i \in TaskIds : returncode[i] = Killed
    /\ Len(results) = Len(tasks)

\* ------------------------------------------------------------- C2
\* C2: at every moment the number of probes inside the semaphore-guarded
\* section of test_speed is at most SPEED_TEST_CONCURRENCY, and the semaphore's
\* value is what is left of it.
C2_InFlightAtMostConcurrency ==
    Dispatched =>
        /\ Cardinality(InFlight) <= SPEED_TEST_CONCURRENCY
        /\ semaphore = SPEED_TEST_CONCURRENCY - Cardinality(InFlight)

\* the semaphore is exhausted and a further probe waits outside it
C2_Witness ==
    /\ Dispatched
    /\ Cardinality(InFlight) = SPEED_TEST_CONCURRENCY
    /\ \E i \in TaskIds : pc[i] = "start"

\* ------------------------------------------------------------- C3
\* C3 as stated: a probe that was killed on timeout yields a failed result
\* that names its candidate and carries the reason timeout.
C3_TimeoutResultCarriesReason ==
    \A i \in TaskIds :
        (pc[i] = "done" /\ returncode[i] = Killed)
            => ret[i] = <<tasks[i][1], tasks[i][2], tasks[i][3], "timeout">>

\* C3, amended: a probe whose subprocess does not exit within the timeout is
\* killed and never hangs: its next step is to return None, and once a probe
\* has been killed the run eventually ends with every probe finished, None
\* for every killed one, and all their results in results, one entry per
\* probe.  The result names neither the candidate nor the reason.
C3_KilledProbeYieldsNone ==
    /\ [][\A i \in TaskIds :
             pc[i] = "wait" =>
                 \/ pc'[i] = "wait"
                 \/ /\ pc'[i] = "done" /\ returncode'[i] = Killed /\ ret'[i] = None
                    /\ done_queue' = Append(done_queue, i)]_vars
    /\ (\E i \in TaskIds : pc[i] = "wait")
           ~> (/\ Finished
               /\ \A i \in TaskIds : pc[i] = "done"
               /\ \E i \in TaskIds : returncode[i] = Killed
               /\ \A i \in TaskIds : returncode[i] = Killed => ret[i] = None
               /\ Len(results) = Len(tasks)
               /\ Occurrences(results, None)
                      = Cardinality({j \in TaskIds : ret[j] = None}))

\* a finished run one of whose probes was killed on timeout and returned None
C3_Witness ==
    /\ Finished
    /\ \E i \in TaskIds : pc[i] = "done" /\ returncode[i] = Killed /\ ret[i] = None
    /\ Len(results) = Len(tasks)

\* ------------------------------------------------------------- vocabulary of the selection
\* the channel keys of the input
CandidateKeys == {<<e[1], e[2]>> : e \in EntrySet}
\* the URLs of channel key in the input
CandidateUrls(key) == {e[3] : e \in {x \in EntrySet : <<x[1], x[2]>> = key}}
\* the list selected for channel key, empty when the key is absent
ChannelList(key) == DictGet(channel_urls, key)
\* the passed probe of url in channel key, and the speed it returned
ProbeOf(key, url) == CHOOSE i \in PassedOf(key) : tasks[i][1] = url
SpeedOf(key, url) == ret[ProbeOf(key, url)][4]
\* where in results the result of the passed probe i stands
ResultPos(i) == CHOOSE k \in 1..Len(results) : results[k] = ret[i]
\* the place of a URL in the lexical order of the URLs
UrlRank(url) == CHOOSE k \in 1..Len(UrlList) : UrlList[k] = url
Selected(key) == {ChannelList(key)[k] : k \in 1..Len(ChannelList(key))}

\* ------------------------------------------------------------- C4
\* C4: after selection no channel keeps more than MAX_LINKS_PER_CHANNEL URLs
\* when that is positive, and every channel keeps all it could when it is 0:
\* all passed ones after the speed test, all deduplicated ones without it.
C4_AtMostMaxLinksPerChannel ==
    phase = "done" =>
        /\ DictKeys(channel_urls) \subseteq CandidateKeys
        /\ \A key \in CandidateKeys :
              LET available == IF ENABLE_SPEED_TEST
                               THEN Cardinality(PassedOf(key))
                               ELSE Cardinality(CandidateUrls(key))
              IN  /\ MAX_LINKS_PER_CHANNEL > 0
                        => Len(ChannelList(key)) <= MAX_LINKS_PER_CHANNEL
                  /\ MAX_LINKS_PER_CHANNEL = 0 => Len(ChannelList(key)) = available
                  /\ Len(ChannelList(key)) <= available

\* a speed-tested channel with more passed URLs than the limit keeps
C4_Witness ==
    /\ Finished
    /\ MAX_LINKS_PER_CHANNEL > 0
    /\ \E key \in CandidateKeys :
          /\ Cardinality(PassedOf(key)) > MAX_LINKS_PER_CHANNEL
          /\ Len(ChannelList(key)) = MAX_LINKS_PER_CHANNEL

\* ------------------------------------------------------------- C5
\* C5: a channel with a passed probe keeps URLs of passed probes of that
\* channel in non-increasing order of their speed, and the first kept URL is
\* at least as fast as every passed probe of the channel, kept or not.
C5_FastestFirst ==
    Finished =>
        \A key \in CandidateKeys :
            PassedOf(key) # {} =>
                LET list == ChannelList(key)
                IN  /\ Len(list) >= 1
                    /\ \A k \in 1..Len(list) :
                          \E i \in PassedOf(key) : tasks[i][1] = list[k]
                    /\ \A k \in 1..(Len(list) - 1) :
                          SpeedOf(key, list[k]) >= SpeedOf(key, list[k + 1])
                    /\ \A i \in PassedOf(key) : SpeedOf(key, list[1]) >= ret[i][4]

\* the slower of two passed probes of a channel completed first, and the
\* truncation to one URL kept the faster
C5_Witness ==
    /\ Finished
    /\ MAX_LINKS_PER_CHANNEL = 1
    /\ \E key \in CandidateKeys : \E i, j \in PassedOf(key) :
          /\ ret[i][4] < ret[j][4]
          /\ ResultPos(i) < ResultPos(j)
          /\ ChannelList(key) = <<tasks[j][1]>>

\* ------------------------------------------------------------- C6
\* C6 as stated: among passed probes of a channel with equal speed the URL
\* that is lexically smaller is ranked first, in the kept list and in the
\* choice of what truncation keeps.
C6_TiesInUrlOrder ==
    Finished =>
        \A key \in CandidateKeys : \A i, j \in PassedOf(key) :
            (/\ ret[i][4] = ret[j][4]
             /\ UrlRank(tasks[i][1]) < UrlRank(tasks[j][1])
             /\ tasks[j][1] \in Selected(key))
                => /\ tasks[i][1] \in Selected(key)
                   /\ \A k, m \in 1..Len(ChannelList(key)) :
                         (ChannelList(key)[k] = tasks[i][1]
                          /\ ChannelList(key)[m] = tasks[j][1]) => k < m

\* C6, amended: among passed probes of a channel with equal speed the one
\* that completed first is ranked first, in the kept list and in the choice of
\* what truncation keeps; the URL plays no part.
C6_TiesInCompletionOrder ==
    Finished =>
        \A key \in CandidateKeys : \A i, j \in PassedOf(key) :
            (/\ ret[i][4] = ret[j][4]
             /\ ResultPos(i) < ResultPos(j)
             /\ tasks[j][1] \in Selected(key))
                => /\ tasks[i][1] \in Selected(key)
                   /\ \A k, m \in 1..Len(ChannelList(key)) :
                         (ChannelList(key)[k] = tasks[i][1]
                          /\ ChannelList(key)[m] = tasks[j][1]) => k < m

\* two passed probes of a channel have equal speed, the one with the
\* lexically greater URL completed first, and both URLs are kept in that order
C6_Witness ==
    /\ Finished
    /\ \E key \in CandidateKeys : \E i, j \in PassedOf(key) :
          /\ ret[i][4] = ret[j][4]
          /\ UrlRank(tasks[i][1]) < UrlRank(tasks[j][1])
          /\ ResultPos(j) < ResultPos(i)
          /\ ChannelList(key) = <<tasks[j][1], tasks[i][1]>>

\* ------------------------------------------------------------- C7
\* C7: a channel none of whose probes passed has no entry after selection:
\* its key is absent from channel_urls and from limited_entries, and no key
\* is present with an empty list.
C7_FailedChannelAbsent ==
    Finished =>
        /\ \A key \in CandidateKeys :
              PassedOf(key) = {} =>
                  /\ key \notin DictKeys(channel_urls)
                  /\ \A k \in 1..Len(limited_entries) :
                        <<limited_entries[k][1], limited_entries[k][2]>> # key
        /\ \A j \in 1..Len(channel_urls) : channel_urls[j][2] # <<>>

\* of two channels the probes of one all failed and the other is kept
C7_Witness ==
    /\ Finished
    /\ \E key \in CandidateKeys :
          /\ PassedOf(key) = {}
          /\ key \notin DictKeys(channel_urls)
    /\ channel_urls # <<>>

\* ------------------------------------------------------------- C8
\* C8 as stated, its throughput half: some positive minimum throughput is
\* applied, that is, there is a threshold above zero that the speed of every
\* passed probe reaches.
C8_PassedReachMinimumThroughput ==
    \E minimum \in 1..MaxSpeed :
        \A i \in TaskIds : (pc[i] = "done" /\ ret[i] # None) => ret[i][4] >= minimum

\* C8, amended: a probe returns a result other than None only if its ffmpeg
\* exited with code 0, a speed was parsed from its output, and a resolution
\* was parsed with width >= MIN_RESOLUTION_WIDTH and height >=
\* MIN_RESOLUTION_HEIGHT; an unknown resolution never passes, and the result
\* carries the parsed speed whatever its value: no minimum throughput is
\* applied.
C8_PassOnlyIfParsedAndResolved ==
    [][\A i \in TaskIds :
          (pc[i] = "parse" /\ pc'[i] = "done" /\ ret'[i] # None)
              => /\ out[i].rc = 0
                 /\ out[i].speed # NoMatch
                 /\ out[i].res # None
                 /\ out[i].res[1] >= MIN_RESOLUTION_WIDTH
                 /\ out[i].res[2] >= MIN_RESOLUTION_HEIGHT
                 /\ ret'[i] = <<tasks[i][1], tasks[i][2], tasks[i][3], out[i].speed>>]_vars

\* a probe has passed with a measured speed of 0
C8_Witness ==
    \E i \in TaskIds :
        /\ pc[i] = "done" /\ returncode[i] = 0
        /\ ret[i] = <<tasks[i][1], tasks[i][2], tasks[i][3], 0>>

\* ------------------------------------------------------------- C9
\* C9: whatever the probes' failures (killed on timeout, ffmpeg failed, no
\* speed or resolution parsed, resolution too low), the run reaches selection
\* and output with every probe finished and its result collected.
C9_RunReachesOutput ==
    <>(/\ phase = "done"
       /\ ENABLE_SPEED_TEST =>
             /\ \A i \in TaskIds : pc[i] = "done"
             /\ Len(results) = Len(tasks)
             /\ Len(tasks) = Cardinality(EntrySet))

\* a finished run in which one probe was killed on timeout, and another
\* probe was still run and passed, and is in the output
C9_Witness ==
    /\ Finished
    /\ \E i, j \in TaskIds :
          /\ returncode[i] = Killed /\ ret[i] = None
          /\ ret[j] # None
          /\ <<tasks[j][2], tasks[j][3], tasks[j][1]>>
                 \in {limited_entries[k] : k \in 1..Len(limited_entries)}

C11_OnlyPassedOfSameChannel ==
    Finished =>
        /\ \A j \in 1..Len(channel_urls) :
              LET key == channel_urls[j][1]
                  urls == channel_urls[j][2]
              IN  /\ \A k \in 1..Len(urls) :
                        \E i \in PassedOf(key) : tasks[i][1] = urls[k]
                  /\ \A k, m \in 1..Len(urls) : urls[k] = urls[m] => k = m
        /\ \A k \in 1..Len(limited_entries) :
              LET group == limited_entries[k][1]
                  name == limited_entries[k][2]
                  url == limited_entries[k][3]
              IN  /\ \E i \in PassedOf(<<group, name>>) : tasks[i][1] = url
                  /\ url \in Selected(<<group, name>>)

\* one URL was probed under two channels, passed under one and failed under
\* the other, and is kept under the first only
C11_Witness ==
    /\ Finished
    /\ \E i, j \in TaskIds :
          /\ tasks[i][1] = tasks[j][1]
          /\ TaskKey(i) # TaskKey(j)
          /\ ret[i] # None
          /\ ret[j] = None
          /\ ChannelList(TaskKey(i)) = <<tasks[i][1]>>
          /\ TaskKey(j) \notin DictKeys(channel_urls)
          /\ limited_entries = <<TaskTriple(i)>>

\* ------------------------------------------------------------- C12
\* C12: while probes are dispatched nothing is grouped, ranked or truncated:
\* speed_map and limited_entries are empty and channel_urls is still the
\* deduplicated input.  Selection happens in the one step that follows the
\* collection of the last result: by then every probe has been admitted, has
\* run its subprocess and has finished, whatever passed before it, and
\* results holds one entry per probe.
C12_AggregateAfterAllProbes ==
    /\ [](Dispatched =>
            /\ phase = "collect" =>
                  /\ speed_map = <<>>
                  /\ limited_entries = <<>>
                  /\ channel_urls = DedupLoop(raw_entries, 1, {}, <<>>)
            /\ phase = "done" =>
                  /\ \A i \in TaskIds : pc[i] = "done" /\ returncode[i] # NotExited
                  /\ Len(results) = Len(tasks)
                  /\ Len(tasks) = Cardinality(EntrySet))
    /\ [][(ENABLE_SPEED_TEST /\ (speed_map' # speed_map \/ channel_urls' # channel_urls
                                    \/ limited_entries' # limited_entries))
             => /\ phase \in {"dedup", "collect"}
                /\ phase = "collect" =>
                      /\ \A i \in TaskIds : pc[i] = "done"
                      /\ Len(results) = Len(tasks)
                      /\ done_queue = <<>>]_vars

\* with one slot, a probe of a channel is in flight after another probe of
\* the same channel has passed and been collected, and nothing is selected yet
C12_Witness ==
    /\ Dispatched
    /\ phase = "collect"
    /\ SPEED_TEST_CONCURRENCY = 1
    /\ speed_map = <<>>
    /\ \E i, j \in TaskIds :
          /\ i # j
          /\ TaskKey(i) = TaskKey(j)
          /\ pc[i] = "done" /\ ret[i] # None
          /\ \E k \in 1..Len(results) : results[k] = ret[i]
          /\ pc[j] = "communicate"

\* ------------------------------------------------------------- C13
\* the probes whose ffmpeg subprocess has been started and is not yet reaped
LiveSubprocesses ==
    {i \in TaskIds : pc[i] \in {"communicate", "wait"}
                     \/ (pc[i] = "done" /\ returncode[i] = NotExited)}

\* C13: a probe leaves the semaphore only in the step in which it returns,
\* and then its subprocess has been reaped: after a timeout, killed and
\* waited for, with None as the result and no speed in it.  Hence the live
\* subprocesses are always among the probes inside the semaphore, at most
\* SPEED_TEST_CONCURRENCY of them, and after the run no slot is held.
C13_KilledAndReapedBeforeRelease ==
    /\ [](Dispatched =>
            /\ LiveSubprocesses \subseteq InFlight
            /\ Cardinality(LiveSubprocesses) <= SPEED_TEST_CONCURRENCY
            /\ \A i \in TaskIds :
                  /\ pc[i] = "wait" => returncode[i] = NotExited /\ i \in InFlight
                  /\ (pc[i] = "done" /\ returncode[i] = Killed) => ret[i] = None
            /\ phase = "done" =>
                  /\ semaphore = SPEED_TEST_CONCURRENCY
                  /\ LiveSubprocesses = {})
    /\ [][\A i \in TaskIds :
             /\ (pc[i] = "wait" /\ pc'[i] # "wait")
                   => /\ pc'[i] = "done"
                      /\ returncode'[i] = Killed
                      /\ ret'[i] = None
                      /\ semaphore' = semaphore + 1
             /\ (pc[i] # "done" /\ pc'[i] = "done")
                   => /\ returncode'[i] # NotExited
                      /\ semaphore' = semaphore + 1
             /\ semaphore' > semaphore
                   => \E j \in TaskIds : pc[j] # "done" /\ pc'[j] = "done"]_vars

\* a run with more probes than slots has finished, one probe was killed on
\* timeout and reaped, and every slot is free again
C13_Witness ==
    /\ Finished
    /\ Len(tasks) > SPEED_TEST_CONCURRENCY
    /\ \E i \in TaskIds : pc[i] = "done" /\ returncode[i] = Killed /\ ret[i] = None
    /\ semaphore = SPEED_TEST_CONCURRENCY
    /\ LiveSubprocesses = {}
====
